---- MODULE Spec2Model ----
(***************************************************************************)
(* pdf2packet: splitting a scanned PDF into one file per packet, driven by *)
(* separator barcodes (src/src/pdf2packet/pdf2packet.py).                  *)
(*                                                                         *)
(* Python str / bytes values are sequences of one-character strings, so    *)
(* that `in`, str.partition and + are computed character by character.     *)
(***************************************************************************)
EXTENDS Integers, Sequences, FiniteSets, TLC

VARIABLES
    args,          \* parsed command line: keep_page, keep_page_next, separator,
                   \* brightness
    filepaths,     \* number of files matched by glob.glob(args.filename)
    ifiles,        \* input files processed so far
    ofiles,        \* running total of generated files
    pc,            \* position of the program
    total_pages,   \* self.total_pages
    current_page,  \* split_qr local
    pdfs_count,    \* split_qr local
    input_pdf,     \* self.input_pdf: the reader now open (file, generation)
    pdf_writer,    \* page handles added to the in-progress writer, in order
    last_label,    \* pending label
    last_race,     \* pending secondary id
    new_sep,       \* label decoded on the latest separator page
    new_race,      \* secondary id decoded with it
    sep,           \* label returned by the latest extract_barcodes call
    race,          \* secondary id returned by it
    page,          \* the page read at line 79 in the latest iteration
    split,         \* split flag of the latest iteration
    img,           \* line 99: the pixel of img under the point transform
    given,         \* history: the --brightness of the command line
    written,       \* history: files written by the split_qr call, in order
    doc            \* history: the source pages the split_qr call has read

vars == <<args, filepaths, ifiles, ofiles, pc, total_pages, current_page,
          pdfs_count, input_pdf, pdf_writer, last_label, last_race, new_sep, new_race,
          sep, race, page, split, img, given, written, doc>>

-----------------------------------------------------------------------------
(* Bounds of the model *)

MaxPages == 3
MaxFiles == 2
MaxImages == 2

-----------------------------------------------------------------------------
(* String literals of the program *)

RPSEQ == <<"R", "P", "S", "E", "Q", ":">>
RC == <<"R", "C", ":">>
Colon == <<":">>
ColonSpace == <<":", " ">>
\* the default of --prefix (line 15) taken for the initial label
PrefixLabel == <<"s", "p", "l", "i", "t">>

\* line 71: the label pending before any separator is seen
DefaultLabel == <<"9", "9", "9", " ", "U", "n", "k", "n", "o", "w", "n">>
Dash == <<"-">>
PdfExt == <<".", "p", "d", "f">>
ImageFilters == {"/FlateDecode", "/DCTDecode", "/JPXDecode"}

(* Any byte outside 7-bit ASCII is written as this one. *)
NonAscii == "\\xe9"

-----------------------------------------------------------------------------
(* Python string primitives *)

\* sub in s
In(sub, s) ==
    \E i \in 1..(Len(s) - Len(sub) + 1) : SubSeq(s, i, i + Len(sub) - 1) = sub

\* s.find(sub) + 1, 0 when absent
Find(sub, s) ==
    IF In(sub, s)
    THEN CHOOSE i \in 1..(Len(s) - Len(sub) + 1) :
            /\ SubSeq(s, i, i + Len(sub) - 1) = sub
            /\ \A j \in 1..(i - 1) : SubSeq(s, j, j + Len(sub) - 1) # sub
    ELSE 0

\* s.partition(delim)[2]
Partition2(s, delim) ==
    IF In(delim, s) THEN SubSeq(s, Find(delim, s) + Len(delim), Len(s))
    ELSE <<>>

\* bytes.decode('ascii') succeeds
IsAscii(b) == \A i \in 1..Len(b) : b[i] # NonAscii

\* bytes.decode('ascii'): code points equal the byte values
DecodeAscii(b) == [i \in 1..Len(b) |-> b[i]]

-----------------------------------------------------------------------------
(* extract_barcodes *)

\* the label taken from a barcode that holds "RPSEQ:"
BarcodeSep(barcode) == Partition2(barcode, Colon)

\* the secondary id taken from a barcode that holds "RC:"
BarcodeRace(barcode) == Partition2(barcode, ColonSpace)

\* one iteration of the loop body on result r, from accumulator acc
ExtractStep(acc, r) ==
    IF acc.raised \/ "parsed" \notin DOMAIN r THEN acc
    ELSE IF ~IsAscii(r.parsed) THEN [acc EXCEPT !.raised = TRUE]
    ELSE LET barcode == DecodeAscii(r.parsed)
         IN  [sep |-> IF In(RPSEQ, barcode) THEN BarcodeSep(barcode)
                      ELSE acc.sep,
              race |-> IF In(RC, barcode) THEN BarcodeRace(barcode)
                       ELSE acc.race,
              raised |-> FALSE]

RECURSIVE ExtractFrom(_, _, _)
ExtractFrom(results, i, acc) ==
    IF i > Len(results) THEN acc
    ELSE ExtractFrom(results, i + 1, ExtractStep(acc, results[i]))

\* returns (sep, race); raised marks a UnicodeDecodeError
extract_barcodes(results) ==
    ExtractFrom(results, 1, [sep |-> <<>>, race |-> <<>>, raised |-> FALSE])

-----------------------------------------------------------------------------
(* Page classification: the image loop of split_qr *)

\* Decoded that lets an image without a label set the secondary id
DecodedAnyRace(st, e) ==
    IF e.raised THEN [st EXCEPT !.raised = TRUE]
    ELSE IF e.sep # <<>>
    THEN [split |-> TRUE, new_sep |-> e.sep, new_race |-> e.race,
          sep |-> e.sep, race |-> e.race, raised |-> FALSE]
    ELSE [st EXCEPT !.sep = e.sep, !.race = e.race,
                    !.new_race = IF e.race # <<>> THEN e.race ELSE @]

\* Decoded that keeps the earlier secondary id when the label comes without
DecodedStaleRace(st, e) ==
    IF e.raised THEN [st EXCEPT !.raised = TRUE]
    ELSE IF e.sep # <<>>
    THEN [split |-> TRUE, new_sep |-> e.sep,
          new_race |-> IF e.race # <<>> THEN e.race ELSE st.new_race,
          sep |-> e.sep, race |-> e.race, raised |-> FALSE]
    ELSE [st EXCEPT !.sep = e.sep, !.race = e.race]

\* Decoded that keeps the label of the first image of the page that has one
DecodedFirstWins(st, e) ==
    IF e.raised THEN [st EXCEPT !.raised = TRUE]
    ELSE IF e.sep # <<>> /\ ~st.split
    THEN [split |-> TRUE, new_sep |-> e.sep, new_race |-> e.race,
          sep |-> e.sep, race |-> e.race, raised |-> FALSE]
    ELSE [st EXCEPT !.sep = e.sep, !.race = e.race]

\* lines 107-115: what the decoder results of one image do to the locals
Decoded(st, e) ==
    IF e.raised THEN [st EXCEPT !.raised = TRUE]
    ELSE IF e.sep # <<>>
    THEN [split |-> TRUE, new_sep |-> e.sep, new_race |-> e.race,
          sep |-> e.sep, race |-> e.race, raised |-> FALSE]
    ELSE [st EXCEPT !.sep = e.sep, !.race = e.race]

\* lines 89-115: the loop body on XObject x.  A missing /Filter entry is a
\* KeyError; an image whose filter is not listed is not decoded.
ImageStep(st, x) ==
    IF st.raised \/ x.Subtype # "/Image" THEN st
    ELSE IF "Filter" \notin DOMAIN x THEN [st EXCEPT !.raised = TRUE]
    ELSE IF x.Filter \in ImageFilters
    THEN Decoded(st, extract_barcodes(x.results))
    ELSE st

RECURSIVE ImagesFrom(_, _, _)
ImagesFrom(xObject, i, st) ==
    IF i > Len(xObject) THEN st
    ELSE ImagesFrom(xObject, i + 1, ImageStep(st, xObject[i]))

\* lines 81-115 on page pg, entered with the locals loc (new_sep, new_race,
\* sep, race).  A page without an /XObject entry is a KeyError at line 81.
ClassifyPage(pg, loc) ==
    IF "XObject" \notin DOMAIN pg.Resources
    THEN [split |-> FALSE, new_sep |-> loc.new_sep, new_race |-> loc.new_race,
          sep |-> loc.sep, race |-> loc.race, raised |-> TRUE]
    ELSE ImagesFrom(pg.Resources.XObject, 1,
                    [split |-> FALSE, new_sep |-> loc.new_sep,
                     new_race |-> loc.new_race, sep |-> loc.sep,
                     race |-> loc.race, raised |-> FALSE])

-----------------------------------------------------------------------------
(* Output naming and the writer *)

\* lines 120-123 and 145-148
OutputName(label, id) ==
    IF id # <<>> THEN label \o Dash \o id \o PdfExt ELSE label \o PdfExt

\* TerminalOutput that leaves the secondary id out of the name
TerminalOutputNoId(label, id) == label \o PdfExt

\* lines 145-148: the name the terminal flush writes under
TerminalOutput(label, id) == OutputName(label, id)

\* SeparatorOutput with lines 124-125 moved before the name is computed
SeparatorOutputFromNew(ll, lr, ns, nr) == OutputName(ns, nr)

\* the name a separator flush writes under: computed from the pending
\* (ll, lr) before lines 124-125 replace them by the new (ns, nr)
SeparatorOutput(ll, lr, ns, nr) == OutputName(ll, lr)

\* HasPages without the emptiness test
HasPagesAlways(writer) == TRUE

\* lines 126 and 149: pdf_writer.getNumPages() > 0
HasPages(writer) == Len(writer) > 0

\* ClosingWriter that keeps the separator page whatever the flag
ClosingWriterKeeps(writer, handle, keep_page) == Append(writer, handle)

\* lines 117-118: the writer the separator flush sees
ClosingWriter(writer, handle, keep_page) ==
    IF keep_page THEN Append(writer, handle) ELSE writer

\* OpeningWriter without lines 138-139
OpeningWriterEmpty(handle, keep_page_next) == <<>>

\* lines 134-139: the writer the next document starts with
OpeningWriter(handle, keep_page_next) ==
    IF keep_page_next THEN <<handle>> ELSE <<>>

\* the source page indices held by a writer, in order
PageIndices(writer) == [i \in 1..Len(writer) |-> writer[i].index]

\* a PdfFileReader: the file it is open on (its index in filepaths) and
\* which of the readers opened on that file it is
Reader(file, gen) == [file |-> file, gen |-> gen]

\* no reader is open
NoReader == Reader(0, 0)

\* Reopened without line 136: the reader the flush has written through stays
ReopenedNever(reader, file) == reader

\* line 136: self.input_pdf = PyPDF4.PdfFileReader(filepath, "rb")
Reopened(reader, file) == Reader(file, reader.gen + 1)

\* Clamped without lines 164-165
ClampedAbove(b) == IF b > 255 THEN 255 ELSE b

\* lines 164-167: args.brightness after the two tests
Clamped(b) ==
    LET low == IF b < 0 THEN 0 ELSE b
    IN  IF low > 255 THEN 255 ELSE low

\* line 98: fn = lambda x: 255 if x > self.brightness else 0
fn(brightness, x) == IF x > brightness THEN 255 ELSE 0

\* line 178 with = in place of +=
AccumulatedLast(total, count) == count

\* line 178: ofiles += splitter.split_qr(args.separator, ifiles)
Accumulated(total, count) == total + count

-----------------------------------------------------------------------------
(* Inputs: decoder payloads, decoder results, XObjects and pages *)

SEP == <<"S", "E", "P", ":">>
Separators == {RPSEQ, SEP}

PayloadA == RPSEQ \o <<"A">>
PayloadEvent1 == RPSEQ \o <<"E", "V", "E", "N", "T", "1">>
PayloadRc100 == <<"R", "C", ":", " ", "1", "0", "0">>
PayloadRcNoSpace == <<"R", "C", ":", "7">>
PayloadColonFirst == <<"X", ":">> \o RPSEQ \o <<"A">>
PayloadB == RPSEQ \o <<"B">>
PayloadBoth == RPSEQ \o <<"C", " ">> \o PayloadRc100
PayloadRcFirst == <<"R", "C", ":", " ", "5", " ">> \o RPSEQ \o <<"D">>
PayloadSepA == SEP \o <<"A">>
PayloadBare == RPSEQ
PayloadOther == <<"Z">>
PayloadLatin1 == <<"R", NonAscii>>

Payloads ==
    {PayloadA, PayloadB, PayloadEvent1, PayloadRc100, PayloadRcNoSpace,
     PayloadColonFirst, PayloadBoth, PayloadRcFirst, PayloadSepA, PayloadBare,
     PayloadOther, PayloadLatin1}

\* one entry of reader.decode(...): a decoded barcode, or nothing found
Found(payload) == [filename |-> "png", parsed |-> payload]
NotFound == [filename |-> "png"]

\* what the decoder returns for the images of the model
ResultLists ==
    {<<NotFound>>} \cup {<<Found(p)>> : p \in Payloads}
    \cup {<<Found(PayloadEvent1), Found(PayloadRc100)>>,
          <<Found(PayloadRc100), Found(PayloadEvent1)>>,
          <<Found(PayloadA), Found(PayloadEvent1)>>}

ImageOf(filter, results) ==
    [Subtype |-> "/Image", Filter |-> filter, results |-> results]
FormXObject == [Subtype |-> "/Form"]
RawImage == [Subtype |-> "/Image", results |-> <<Found(PayloadA)>>]
FaxImage == ImageOf("/CCITTFaxDecode", <<Found(PayloadA)>>)

XObjects ==
    {FormXObject, RawImage, FaxImage,
     ImageOf("/FlateDecode", <<Found(PayloadA)>>)}
    \cup {ImageOf("/DCTDecode", r) : r \in ResultLists}

PageOf(xObject) == [Resources |-> [XObject |-> xObject]]
TextPage == [Resources |-> [Font |-> "/F1"]]

\* every page of at most MaxImages XObjects, and the page without any entry
RECURSIVE XObjectLists(_)
XObjectLists(n) ==
    IF n = 0 THEN {<<>>}
    ELSE XObjectLists(n - 1)
         \cup {Append(l, x) : l \in XObjectLists(n - 1), x \in XObjects}

AllPages == {TextPage} \cup {PageOf(l) : l \in XObjectLists(MaxImages)}

\* the pages documents are made of
ScanPage == PageOf(<<ImageOf("/DCTDecode", <<NotFound>>)>>)
EmptyPage == PageOf(<<FormXObject>>)
FaxPage == PageOf(<<FaxImage>>)
PageA == PageOf(<<ImageOf("/DCTDecode", <<Found(PayloadA)>>)>>)
PageB == PageOf(<<ImageOf("/DCTDecode", <<Found(PayloadB)>>)>>)
PageEvent1 ==
    PageOf(<<ImageOf("/DCTDecode", <<Found(PayloadEvent1)>>),
             ImageOf("/DCTDecode", <<Found(PayloadRc100)>>)>>)
PageEvent1Rev ==
    PageOf(<<ImageOf("/DCTDecode", <<Found(PayloadRc100)>>),
             ImageOf("/DCTDecode", <<Found(PayloadEvent1)>>)>>)
PageEvent1Rc ==
    PageOf(<<ImageOf("/DCTDecode",
                     <<Found(PayloadEvent1), Found(PayloadRc100)>>)>>)

DocPages ==
    {TextPage, ScanPage, EmptyPage, FaxPage, PageA, PageEvent1, PageEvent1Rev,
     PageEvent1Rc}

\* a local variable that has not been assigned
Unbound == <<"(unbound)">>

\* the value of `page` before any page is read
NoPage == [Resources |-> [Unread |-> TRUE]]

\* the value of `img` while no image is converted
NoImage == [gray |-> -1, point |-> -1]

-----------------------------------------------------------------------------
(* The program *)

\* lines 159-174: the command line is parsed and the glob resolved
Init ==
    /\ args \in [keep_page : BOOLEAN, keep_page_next : BOOLEAN,
                 separator : Separators, brightness : {128}]
    /\ filepaths \in 0..MaxFiles
    /\ ifiles = 0
    /\ ofiles = 0
    /\ pc = "main"
    /\ total_pages = 0
    /\ current_page = 0
    /\ pdfs_count = 0
    /\ input_pdf = NoReader
    /\ pdf_writer = <<>>
    /\ last_label = Unbound
    /\ last_race = Unbound
    /\ new_sep = Unbound
    /\ new_race = Unbound
    /\ sep = Unbound
    /\ race = Unbound
    /\ page = NoPage
    /\ split = FALSE
    /\ img = NoImage
    /\ given = args.brightness
    /\ written = <<>>
    /\ doc = <<>>

\* the locals of split_qr that the image loop reads and assigns
Locals == [new_sep |-> new_sep, new_race |-> new_race, sep |-> sep,
           race |-> race]

\* lines 170-171: sys.exit when the glob matched nothing
NoFiles ==
    /\ pc = "main"
    /\ filepaths = 0
    /\ pc' = "exit"
    /\ UNCHANGED <<args, filepaths, ifiles, ofiles, total_pages, current_page,
                   pdfs_count, input_pdf, pdf_writer, last_label, last_race,
                   new_sep, new_race, sep, race, page, split, img, given,
                   written, doc>>

\* lines 176-177, 45-57 and 66-72: the next file is opened and split_qr
\* entered; the file has one of the page counts in `counts`
OpenFileOf(counts) ==
    /\ pc = "main"
    /\ ifiles < filepaths
    /\ \E n \in counts : total_pages' = n
    /\ current_page' = 0
    /\ pdfs_count' = 0
    /\ input_pdf' = Reader(ifiles, 1)
    /\ pdf_writer' = <<>>
    /\ last_label' = DefaultLabel
    /\ last_race' = <<>>
    /\ new_sep' = Unbound
    /\ new_race' = Unbound
    /\ sep' = Unbound
    /\ race' = Unbound
    /\ page' = NoPage
    /\ split' = FALSE
    /\ written' = <<>>
    /\ doc' = <<>>
    /\ pc' = "pages"
    /\ UNCHANGED <<args, filepaths, ifiles, ofiles, img, given>>

\* lines 116-139: the separator branch, with classification c of the page;
\* the global filepath of line 136 is the file of the main loop, filepaths[ifiles]
SeparatorBranch(c) ==
    LET handle == [index |-> current_page, reader |-> input_pdf]
        closing == ClosingWriter(pdf_writer, handle, args.keep_page)
        output == SeparatorOutput(last_label, last_race, c.new_sep, c.new_race)
    IN  /\ last_label' = c.new_sep
        /\ last_race' = c.new_race
        /\ IF HasPages(closing)
           THEN /\ written' = Append(written, [name |-> output,
                                               pages |-> closing,
                                               at |-> current_page])
                /\ pdfs_count' = pdfs_count + 1
           ELSE UNCHANGED <<written, pdfs_count>>
        /\ input_pdf' = Reopened(input_pdf, ifiles)
        /\ pdf_writer' = OpeningWriter(handle, args.keep_page_next)

\* OrdinaryBranch that starts the writer over at each page
OrdinaryBranchRestart ==
    /\ pdf_writer' = <<[index |-> current_page, reader |-> input_pdf]>>
    /\ UNCHANGED <<last_label, last_race, written, pdfs_count, input_pdf>>

\* lines 140-141: an ordinary page joins the in-progress document
OrdinaryBranch ==
    /\ pdf_writer' =
           Append(pdf_writer, [index |-> current_page, reader |-> input_pdf])
    /\ UNCHANGED <<last_label, last_race, written, pdfs_count, input_pdf>>

\* lines 74-143: one iteration of the page loop, on a page drawn from `pages`
ProcessPageOf(pages) ==
    /\ pc = "pages"
    /\ current_page # total_pages
    /\ \E pg \in pages :
         LET c == ClassifyPage(pg, Locals)
         IN  /\ page' = pg
             /\ doc' = Append(doc, pg)
             /\ IF c.raised
                THEN /\ pc' = "error"
                     /\ UNCHANGED <<current_page, pdfs_count, input_pdf,
                                    pdf_writer, last_label, last_race,
                                    new_sep, new_race, sep, race, split,
                                    written>>
                ELSE /\ split' = c.split
                     /\ new_sep' = c.new_sep
                     /\ new_race' = c.new_race
                     /\ sep' = c.sep
                     /\ race' = c.race
                     /\ IF c.split THEN SeparatorBranch(c) ELSE OrdinaryBranch
                     /\ current_page' = current_page + 1
                     /\ pc' = "pages"
    /\ UNCHANGED <<args, filepaths, ifiles, ofiles, total_pages, img,
                   given>>

\* lines 145-156: the terminal flush and the return of pdfs_count
EndOfInput ==
    /\ pc = "pages"
    /\ current_page = total_pages
    /\ IF HasPages(pdf_writer)
       THEN /\ written' = Append(written,
                                 [name |-> TerminalOutput(last_label, last_race),
                                  pages |-> pdf_writer,
                                  at |-> total_pages])
            /\ pdfs_count' = pdfs_count + 1
       ELSE UNCHANGED <<written, pdfs_count>>
    /\ pc' = "returned"
    /\ UNCHANGED <<args, filepaths, ifiles, ofiles, total_pages, current_page,
                   input_pdf, pdf_writer, last_label, last_race, new_sep,
                   new_race, sep, race, page, split, img, given, doc>>

\* lines 178-179: the caller adds the returned count; the splitter and the
\* locals of its split_qr call are gone
Accumulate ==
    /\ pc = "returned"
    /\ ofiles' = Accumulated(ofiles, pdfs_count)
    /\ ifiles' = ifiles + 1
    /\ pc' = "main"
    /\ total_pages' = 0
    /\ current_page' = 0
    /\ pdfs_count' = 0
    /\ input_pdf' = NoReader
    /\ pdf_writer' = <<>>
    /\ last_label' = Unbound
    /\ last_race' = Unbound
    /\ new_sep' = Unbound
    /\ new_race' = Unbound
    /\ sep' = Unbound
    /\ race' = Unbound
    /\ page' = NoPage
    /\ split' = FALSE
    /\ written' = <<>>
    /\ doc' = <<>>
    /\ UNCHANGED <<args, filepaths, img, given>>

\* lines 181-185: the summary, after the last file
Summary ==
    /\ pc = "main"
    /\ filepaths # 0
    /\ ifiles = filepaths
    /\ pc' = "done"
    /\ UNCHANGED <<args, filepaths, ifiles, ofiles, total_pages, current_page,
                   pdfs_count, input_pdf, pdf_writer, last_label, last_race,
                   new_sep, new_race, sep, race, page, split, img, given,
                   written, doc>>

OpenFile == OpenFileOf(0..MaxPages)
ProcessPage == ProcessPageOf(DocPages)

Next ==
    \/ NoFiles
    \/ OpenFile
    \/ ProcessPage
    \/ EndOfInput
    \/ Accumulate
    \/ Summary

Spec == Init /\ [][Next]_vars

\* the interpreter runs the program on: a step that can be taken is taken
SpecFair == Spec /\ WF_vars(Next)

-----------------------------------------------------------------------------
(* The page loop on documents of five pages made of scanned pages and the  *)
(* separator sheets "A" and "B"                                            *)

ScenarioDoc == <<ScanPage, ScanPage, PageA, ScanPage, PageB>>
ScenarioPages == {ScenarioDoc[i] : i \in 1..Len(ScenarioDoc)}

OpenScenario == OpenFileOf({Len(ScenarioDoc)})
ProcessScenarioPage == ProcessPageOf(ScenarioPages)

NextScenario ==
    \/ NoFiles
    \/ OpenScenario
    \/ ProcessScenarioPage
    \/ EndOfInput
    \/ Accumulate
    \/ Summary

SpecScenario == Init /\ [][NextScenario]_vars

-----------------------------------------------------------------------------
(* The classification of one page, over every page of AllPages *)

InitPage ==
    /\ args \in [keep_page : BOOLEAN, keep_page_next : BOOLEAN,
                 separator : Separators, brightness : {128}]
    /\ filepaths = 1
    /\ ifiles = 0
    /\ ofiles = 0
    /\ pc = "classify"
    /\ total_pages = 1
    /\ current_page = 0
    /\ pdfs_count = 0
    /\ input_pdf = Reader(0, 1)
    /\ pdf_writer = <<>>
    /\ last_label = DefaultLabel
    /\ last_race = <<>>
    /\ new_sep = Unbound
    /\ new_race = Unbound
    /\ sep = Unbound
    /\ race = Unbound
    /\ page = NoPage
    /\ split = FALSE
    /\ img = NoImage
    /\ given = args.brightness
    /\ written = <<>>
    /\ doc = <<>>

\* lines 79-115 of the first iteration of split_qr(args.separator, ifiles)
Classify ==
    /\ pc = "classify"
    /\ \E pg \in AllPages :
         LET c == ClassifyPage(pg, Locals)
         IN  /\ page' = pg
             /\ doc' = Append(doc, pg)
             /\ split' = c.split
             /\ new_sep' = c.new_sep
             /\ new_race' = c.new_race
             /\ sep' = c.sep
             /\ race' = c.race
             /\ pc' = IF c.raised THEN "error" ELSE "classified"
    /\ UNCHANGED <<args, filepaths, ifiles, ofiles, total_pages, current_page,
                   pdfs_count, input_pdf, pdf_writer, last_label, last_race,
                   img, given, written>>

\* lines 116-143 of that iteration
Branch ==
    /\ pc = "classified"
    /\ IF split THEN SeparatorBranch(Locals) ELSE OrdinaryBranch
    /\ current_page' = current_page + 1
    /\ pc' = "pages"
    /\ UNCHANGED <<args, filepaths, ifiles, ofiles, total_pages, new_sep,
                   new_race, sep, race, page, split, img, given, doc>>

NextPage ==
    \/ Classify
    \/ Branch

SpecPage == InitPage /\ [][NextPage]_vars

-----------------------------------------------------------------------------
(* The brightness threshold: the command line is parsed, the threshold is  *)
(* clamped, and a pixel of an image converted to 8-bit gray is binarized   *)

\* values --brightness is given (type=int)
Brightnesses == {-300, -10, -1, 0, 1, 127, 128, 129, 254, 255, 256, 300}

\* the pixels of an image in mode 'L'
Grays == 0..255

\* line 159: the command line is parsed
InitBrightness ==
    /\ args \in [keep_page : {FALSE}, keep_page_next : {FALSE},
                 separator : {RPSEQ}, brightness : Brightnesses]
    /\ filepaths = 1
    /\ ifiles = 0
    /\ ofiles = 0
    /\ pc = "parsed"
    /\ total_pages = 0
    /\ current_page = 0
    /\ pdfs_count = 0
    /\ input_pdf = NoReader
    /\ pdf_writer = <<>>
    /\ last_label = Unbound
    /\ last_race = Unbound
    /\ new_sep = Unbound
    /\ new_race = Unbound
    /\ sep = Unbound
    /\ race = Unbound
    /\ page = NoPage
    /\ split = FALSE
    /\ img = NoImage
    /\ given = args.brightness
    /\ written = <<>>
    /\ doc = <<>>

\* lines 164-167
Clamp ==
    /\ pc = "parsed"
    /\ args' = [args EXCEPT !.brightness = Clamped(@)]
    /\ pc' = "clamped"
    /\ UNCHANGED <<filepaths, ifiles, ofiles, total_pages, current_page,
                   pdfs_count, input_pdf, pdf_writer, last_label, last_race,
                   new_sep, new_race, sep, race, page, split, img, given,
                   written, doc>>

\* lines 98-99: img.convert('L').point(fn, mode='1') on a pixel of gray g,
\* with self.brightness = args.brightness (line 177)
Point ==
    /\ pc = "clamped"
    /\ \E g \in Grays : img' = [gray |-> g, point |-> fn(args.brightness, g)]
    /\ pc' = "pointed"
    /\ UNCHANGED <<args, filepaths, ifiles, ofiles, total_pages, current_page,
                   pdfs_count, input_pdf, pdf_writer, last_label, last_race,
                   new_sep, new_race, sep, race, page, split, given, written,
                   doc>>

NextBrightness ==
    \/ Clamp
    \/ Point

SpecBrightness == InitBrightness /\ [][NextBrightness]_vars

-----------------------------------------------------------------------------
(* Vocabulary of the properties: what the pages read so far are, told from *)
(* the document alone.  Page index k of the source is doc[k + 1].          *)

FreshLocals ==
    [new_sep |-> Unbound, new_race |-> Unbound, sep |-> Unbound,
     race |-> Unbound]

\* the pages documents are drawn from
KnownPages == DocPages \cup ScenarioPages

\* the known pages that are separator pages
SeparatorPages ==
    {pg \in KnownPages :
        LET c == ClassifyPage(pg, FreshLocals) IN c.split /\ ~c.raised}

\* the name the marker of each separator page stands for
MarkerNames ==
    [pg \in SeparatorPages |->
        LET c == ClassifyPage(pg, FreshLocals)
        IN  OutputName(c.new_sep, c.new_race)]

IsSeparator(pg) == pg \in SeparatorPages

MarkerName(pg) == MarkerNames[pg]

SentinelPdf ==
    <<"9", "9", "9", " ", "U", "n", "k", "n", "o", "w", "n",
      ".", "p", "d", "f">>

\* the separator pages among the page indices 0 .. k-1
SeparatorsBefore(k) ==
    {j \in 0..(k - 1) : j < Len(doc) /\ IsSeparator(doc[j + 1])}

Latest(S) == CHOOSE j \in S : \A i \in S : i <= j

\* the name pending once pages 0 .. k-1 are processed
PendingName(k) ==
    IF SeparatorsBefore(k) = {} THEN SentinelPdf
    ELSE MarkerName(doc[Latest(SeparatorsBefore(k)) + 1])

SeparatorAt(k) == k < Len(doc) /\ IsSeparator(doc[k + 1])

B2N(b) == IF b THEN 1 ELSE 0

\* the written documents that hold source page k
Holding(k) ==
    {i \in 1..Len(written) :
        \E n \in 1..Len(written[i].pages) : written[i].pages[n].index = k}

-----------------------------------------------------------------------------
(* C1: every file is written under the name of the latest separator page   *)
(* strictly before the page at which it is flushed (the sentinel when      *)
(* there is none), never under the marker of the flushing page itself; the *)
(* marker of a separator page is the pending name from then on.            *)
C1_NamingOneStepBehind ==
    /\ \A i \in 1..Len(written) : written[i].name = PendingName(written[i].at)
    /\ pc \in {"pages", "returned"} =>
           OutputName(last_label, last_race) = PendingName(current_page)

\* a separator flush named after an earlier separator whose marker differs
C1_Witness ==
    \E i \in 1..Len(written) :
        /\ SeparatorAt(written[i].at)
        /\ SeparatorsBefore(written[i].at) # {}
        /\ written[i].name # MarkerName(doc[written[i].at + 1])
        /\ written[i].name # SentinelPdf

\* the in-progress document is non-empty when page k is reached (after the
\* keep-page append if k is a separator), k = Len(doc) being the end of input
NonEmptyAt(k) ==
    \/ SeparatorAt(k) /\ args.keep_page
    \/ k > 0 /\ (~SeparatorAt(k - 1) \/ args.keep_page_next)

ExpectedCount ==
    Cardinality({k \in 0..(Len(doc) - 1) : SeparatorAt(k) /\ NonEmptyAt(k)})
    + B2N(NonEmptyAt(Len(doc)))

(* C2: the value split_qr returns is the number of files it wrote: one for *)
(* each separator reached with a non-empty in-progress document after the  *)
(* keep-page append, one more at the end of input iff the in-progress      *)
(* document is non-empty; no empty document is written or counted.         *)
C2_CountEqualsWritten ==
    /\ pdfs_count = Len(written)
    /\ \A i \in 1..Len(written) : Len(written[i].pages) > 0
    /\ pc = "returned" => pdfs_count = ExpectedCount

\* a run in which one separator flushed nothing and two files were written
C2_Witness ==
    /\ pc = "returned"
    /\ pdfs_count = 2
    /\ \E k \in 0..(Len(doc) - 1) : SeparatorAt(k) /\ ~NonEmptyAt(k)

(* C3: a separator page is appended to the document it closes iff          *)
(* keep_page is set and to the document it opens iff keep_page_next is     *)
(* set: with both it is in two written files, with neither in none.        *)
C3_SeparatorPagePlacement ==
    /\ pc = "pages" /\ current_page > 0 /\ SeparatorAt(current_page - 1) =>
           PageIndices(pdf_writer) =
               IF args.keep_page_next THEN <<current_page - 1>> ELSE <<>>
    /\ pc = "returned" =>
           \A k \in 0..(Len(doc) - 1) : SeparatorAt(k) =>
               /\ Cardinality(Holding(k)) =
                      B2N(args.keep_page) + B2N(args.keep_page_next)
               /\ args.keep_page =>
                      \E i \in Holding(k) :
                          /\ written[i].at = k
                          /\ written[i].pages[Len(written[i].pages)].index = k
               /\ args.keep_page_next =>
                      \E i \in Holding(k) :
                          /\ written[i].at > k
                          /\ written[i].pages[1].index = k

\* both flags set: a separator page held by two written files
C3_Witness ==
    /\ pc = "returned"
    /\ args.keep_page /\ args.keep_page_next
    /\ \E k \in 0..(Len(doc) - 1) :
           SeparatorAt(k) /\ Cardinality(Holding(k)) = 2

(* C4, as stated: whenever a file is written, the first one is named with  *)
(* the sentinel label, wherever the separators are and whatever the flags. *)
C4_FirstAlwaysSentinel ==
    Len(written) >= 1 => written[1].name = SentinelPdf

(* C4, amended: the first file is named with the sentinel label when       *)
(* keep_page is set or page 0 is not a separator; when page 0 is a         *)
(* separator and keep_page is not set, nothing is flushed at page 0 and    *)
(* the first file is named from the latest marker before its flush.        *)
C4_FirstSentinelUnlessLeadingSeparator ==
    Len(written) >= 1 =>
        IF args.keep_page \/ ~SeparatorAt(0)
        THEN written[1].name = SentinelPdf
        ELSE /\ written[1].at > 0
             /\ written[1].name =
                    MarkerName(doc[Latest(SeparatorsBefore(written[1].at)) + 1])

\* a separator on page 0, keep_page unset: the first file bears a marker name
C4_Witness ==
    /\ Len(written) >= 1
    /\ ~args.keep_page
    /\ SeparatorAt(0)
    /\ written[1].name # SentinelPdf

\* split_qr has returned from the scenario document, no keep flag set
ScenarioRun ==
    /\ pc = "returned"
    /\ doc = ScenarioDoc
    /\ ~args.keep_page
    /\ ~args.keep_page_next

\* the two files of the scenario, the first of them named `first`
ScenarioFiles(first) ==
    /\ pdfs_count = 2
    /\ Len(written) = 2
    /\ written[1].name = first
    /\ PageIndices(written[1].pages) = <<0, 1>>
    /\ written[2].name = <<"A", ".", "p", "d", "f">>
    /\ PageIndices(written[2].pages) = <<3>>
    /\ Holding(2) = {}
    /\ Holding(4) = {}
    /\ \A i \in 1..Len(written) :
           written[i].name # <<"B", ".", "p", "d", "f">>

(* C5, as stated: the five-page input with "A" on page 2 and "B" on page 4 *)
(* and no keep flag gives "unnamed.pdf" with pages 0, 1 and "A.pdf" with   *)
(* page 3, nothing else, and split_qr returns 2.                           *)
C5_ScenarioUnnamed ==
    ScenarioRun =>
        ScenarioFiles(<<"u", "n", "n", "a", "m", "e", "d", ".", "p", "d", "f">>)

(* C5, amended: the same run gives "999 Unknown.pdf" with pages 0, 1 and   *)
(* "A.pdf" with page 3, nothing else, and split_qr returns 2.              *)
C5_Scenario999Unknown == ScenarioRun => ScenarioFiles(SentinelPdf)

\* the scenario run has returned 2
C5_Witness == ScenarioRun /\ pdfs_count = 2

\* the label, the secondary id and the file names of the "EVENT1" scenario
Event1 == <<"E", "V", "E", "N", "T", "1">>
Id100 == <<"1", "0", "0">>
Event1Pdf == Event1 \o <<".", "p", "d", "f">>
Event1Id100Pdf == Event1 \o <<"-">> \o Id100 \o <<".", "p", "d", "f">>

\* the latest page processed, when the loop goes on
JustProcessed(pages) ==
    pc = "pages" /\ current_page > 0 /\ doc[current_page] \in pages

\* the written files whose pending name was set by one of `pages`
NamedBy(pages) ==
    {i \in 1..Len(written) :
        /\ SeparatorsBefore(written[i].at) # {}
        /\ doc[Latest(SeparatorsBefore(written[i].at)) + 1] \in pages}

(* C6, as stated: a page with one image decoding to "RPSEQ:EVENT1" and     *)
(* another decoding to "RC: 100" is a separator with label "EVENT1" and    *)
(* secondary id "100", and the file later flushed under that pending state *)
(* is "EVENT1-100.pdf", in either order of the two images.                 *)
C6_TwoImagesNamedWithId ==
    /\ JustProcessed({PageEvent1, PageEvent1Rev}) =>
           split /\ last_label = Event1 /\ last_race = Id100
    /\ \A i \in NamedBy({PageEvent1, PageEvent1Rev}) :
           written[i].name = Event1Id100Pdf

(* C6, amended: such a page is a separator with label "EVENT1" and an      *)
(* empty secondary id, and the file later flushed under that pending state *)
(* is "EVENT1.pdf", in either order of the two images; the name is         *)
(* "EVENT1-100.pdf" when one image decodes to both payloads.               *)
C6_TwoImagesNamedWithoutId ==
    /\ JustProcessed({PageEvent1, PageEvent1Rev}) =>
           split /\ last_label = Event1 /\ last_race = <<>>
    /\ \A i \in NamedBy({PageEvent1, PageEvent1Rev}) :
           written[i].name = Event1Pdf
    /\ JustProcessed({PageEvent1Rc}) =>
           split /\ last_label = Event1 /\ last_race = Id100
    /\ \A i \in NamedBy({PageEvent1Rc}) : written[i].name = Event1Id100Pdf

\* files named by the two-image page in each order of its images
C6_Witness ==
    /\ NamedBy({PageEvent1}) # {}
    /\ NamedBy({PageEvent1Rev}) # {}

\* no page read so far is a separator
NoSeparators == \A k \in 0..(Len(doc) - 1) : ~SeparatorAt(k)

-----------------------------------------------------------------------------
(* Vocabulary of the classifier properties *)

\* the images of a page that split_qr hands to the decoder
DecodedImages(pg) ==
    IF "XObject" \notin DOMAIN pg.Resources THEN {}
    ELSE {n \in 1..Len(pg.Resources.XObject) :
             LET x == pg.Resources.XObject[n]
             IN  /\ x.Subtype = "/Image"
                 /\ "Filter" \in DOMAIN x
                 /\ x.Filter \in ImageFilters}

\* the payloads the images of a page decode to
DecodedPayloads(pg) ==
    UNION {{pg.Resources.XObject[n].results[m].parsed :
               m \in {m \in 1..Len(pg.Resources.XObject[n].results) :
                         "parsed" \in
                             DOMAIN pg.Resources.XObject[n].results[m]}} :
           n \in DecodedImages(pg)}

\* a page without an image, or whose images all bear a filter that is not
\* a supported one
NoUsableImage(pg) ==
    \/ "XObject" \notin DOMAIN pg.Resources
    \/ \A n \in 1..Len(pg.Resources.XObject) :
           LET x == pg.Resources.XObject[n]
           IN  x.Subtype = "/Image" =>
                   "Filter" \in DOMAIN x /\ x.Filter \notin ImageFilters

\* the part of s after the first occurrence of prefix
After(prefix, s) ==
    LET at == {i \in 1..(Len(s) - Len(prefix) + 1) :
                  \A n \in 1..Len(prefix) : s[i + n - 1] = prefix[n]}
    IN  IF at = {} THEN <<>>
        ELSE LET first == CHOOSE i \in at : \A j \in at : i <= j
             IN  [n \in 1..(Len(s) - first - Len(prefix) + 1) |->
                     s[first + Len(prefix) - 1 + n]]

SinglePayloadPage(p) == PageOf(<<ImageOf("/DCTDecode", <<Found(p)>>)>>)

(* C8: a page is a separator iff one of its images decodes to a payload    *)
(* that contains the configured separator prefix (--separator, passed to   *)
(* split_qr as split_text).                                                *)
C8_SeparatorIffConfiguredPrefix ==
    pc = "classified" =>
        (split <=> \E p \in DecodedPayloads(page) : In(args.separator, p))

(* C9: a page without an image, or with images of unsupported filters      *)
(* only, is processed without error, is not a separator, is appended to    *)
(* the in-progress document and leaves the pending label and id unchanged. *)
C9_PageWithoutUsableImageIsOrdinary ==
    [][(pc = "pages" /\ doc' # doc /\ NoUsableImage(page')) =>
           /\ pc' = "pages"
           /\ ~split'
           /\ pdf_writer' =
                  Append(pdf_writer,
                         [index |-> current_page, reader |-> input_pdf])
           /\ UNCHANGED <<last_label, last_race>>]_vars

(* C10: from a decoded payload that contains the separator prefix, the     *)
(* label is what follows the first occurrence of the prefix; from one that *)
(* contains "RC:", the secondary id is what follows the first "RC: ".      *)
C10_FieldsFollowTheirPrefix ==
    pc = "classified" /\ args.separator = RPSEQ =>
        \A p \in Payloads :
            page = SinglePayloadPage(p) =>
                /\ In(RPSEQ, p) => sep = After(RPSEQ, p)
                /\ In(RC, p) => race = After(<<"R", "C", ":", " ">>, p)

-----------------------------------------------------------------------------
(* Naming, readers and storage *)

\* label + "-" + secondary id + ".pdf", or label + ".pdf" when the id is empty
NameRule(label, id) ==
    IF id = <<>> THEN label \o <<".", "p", "d", "f">>
    ELSE label \o <<"-">> \o id \o <<".", "p", "d", "f">>

(* C11: every file split_qr writes, at a separator flush and at the        *)
(* terminal flush alike, is named from the state pending when the flush    *)
(* begins: label + "-" + secondary id + ".pdf" when the pending secondary  *)
(* id is non-empty and label + ".pdf" otherwise.                           *)
C11_NamesFromPendingState ==
    [][Len(written') > Len(written) =>
           written'[Len(written')].name = NameRule(last_label, last_race)]_vars

\* a separator flush and the terminal flush, both named with a secondary id
C11_Witness ==
    /\ pc = "returned"
    /\ \E i \in 1..Len(written) :
           written[i].at < total_pages /\ written[i].name = Event1Id100Pdf
    /\ \E i \in 1..Len(written) :
           written[i].at = total_pages /\ written[i].name = Event1Id100Pdf

\* a written file holds a page handle taken from this reader
WrittenThrough(reader) ==
    \E i \in 1..Len(written) :
        \E n \in 1..Len(written[i].pages) : written[i].pages[n].reader = reader

\* the step reads a page of the source (line 79)
ReadsPage == pc = "pages" /\ doc' # doc

(* C12, as stated: right after every flush of an output document split_qr  *)
(* acquires a fresh reader on the same source document, and no page is     *)
(* read, and no page handle taken, from a reader through which an output   *)
(* document has been written.                                              *)
C12_ReaderFreshAfterEveryFlush ==
    [][/\ Len(written') > Len(written) =>
              input_pdf' = Reader(input_pdf.file, input_pdf.gen + 1)
       /\ ReadsPage => ~WrittenThrough(input_pdf)]_vars

(* C12, amended: at every separator page, a document flushed there or not, *)
(* split_qr acquires a fresh reader on the same source document before the *)
(* next page is read; the terminal flush is followed by no acquisition and *)
(* by no read; so no page is read, and no page handle taken, from a reader *)
(* through which an output document has been written.                      *)
C12_ReaderFreshAfterSeparator ==
    [][/\ (pc = "pages" /\ pc' = "pages" /\ split') =>
              /\ input_pdf' = Reader(input_pdf.file, input_pdf.gen + 1)
              /\ input_pdf.file = ifiles
              /\ ~WrittenThrough(input_pdf)'
       /\ pc' = "returned" => UNCHANGED <<input_pdf, doc>>
       /\ ReadsPage => ~WrittenThrough(input_pdf)]_vars

\* a separator flush through the first reader, a page read from a later
\* reader, and the terminal flush through it, after which it is still open
C12_Witness ==
    /\ pc = "returned"
    /\ input_pdf.gen >= 2
    /\ WrittenThrough(Reader(input_pdf.file, 1))
    /\ WrittenThrough(input_pdf)

\* lines 130-131 and 152-153, open(output, 'wb'): the names of the files
\* the split_qr call has left in the working directory
StoredNames == {written[i].name : i \in 1..Len(written)}

\* the pages of the file stored under a name: those of the latest write
Stored(name) ==
    LET writes == {i \in 1..Len(written) : written[i].name = name}
    IN  written[CHOOSE i \in writes : \A j \in writes : j <= i].pages

(* C13: the files in storage after split_qr are one per document flushed:  *)
(* as many files as the count it returns, each flushed document's pages    *)
(* retrievable under its name, a flush to an existing name replacing the   *)
(* file.                                                                   *)
C13_OneStoredFilePerFlush ==
    pc = "returned" =>
        /\ Cardinality(StoredNames) = pdfs_count
        /\ \A i \in 1..Len(written) :
               Stored(written[i].name) = written[i].pages

-----------------------------------------------------------------------------
(* The run over several inputs *)

\* "999 Unknown"
SentinelLabel == SubSeq(SentinelPdf, 1, 11)

(* C14: the inputs of a run are processed one after another and only the   *)
(* running total passes from one to the next: each input is entered with   *)
(* the sentinel label, an empty secondary id, an empty document and a      *)
(* count of 0, whatever came before; the total starts at 0 and changes     *)
(* only by the addition of the value a split_qr call returns.              *)
C14_OnlyTheTotalIsCarried ==
    [][/\ ifiles = 0 => ofiles = 0
       /\ (pc = "main" /\ pc' = "pages") =>
              /\ last_label' = SentinelLabel
              /\ last_race' = <<>>
              /\ pdf_writer' = <<>>
              /\ pdfs_count' = 0
              /\ current_page' = 0
              /\ input_pdf' = Reader(ifiles, 1)
       /\ pc = "pages" => pc' \in {"pages", "returned", "error"}
       /\ pc = "returned" =>
              /\ ofiles' = ofiles + pdfs_count
              /\ ifiles' = ifiles + 1
              /\ pc' = "main"
       /\ pc # "returned" => UNCHANGED <<ofiles, ifiles>>]_vars

\* the second input is entered after a first one that met a separator
C14_Witness ==
    /\ pc = "pages"
    /\ ifiles = 1
    /\ ofiles >= 2
    /\ current_page = 0
    /\ last_label = SentinelLabel
    /\ pdf_writer = <<>>

-----------------------------------------------------------------------------
(* The brightness threshold *)

\* the threshold the program is to use for a given --brightness
Threshold(b) == IF b < 0 THEN 0 ELSE IF b > 255 THEN 255 ELSE b

(* C15: a --brightness below 0 behaves as 0 and one above 255 as 255, on   *)
(* every gray value; one within 0..255 is used as given; with B the        *)
(* clamped threshold, a pixel of gray g becomes 255 if g > B and 0         *)
(* otherwise.                                                              *)
C15_BrightnessClamped ==
    /\ pc \in {"clamped", "pointed"} =>
           /\ given < 0 =>
                  \A g \in Grays : fn(args.brightness, g) = fn(0, g)
           /\ given > 255 =>
                  \A g \in Grays : fn(args.brightness, g) = fn(255, g)
           /\ given \in 0..255 => args.brightness = given
    /\ pc = "pointed" =>
           /\ img.gray \in Grays
           /\ img.point = IF img.gray > Threshold(given) THEN 255 ELSE 0

\* --brightness -10: the pixel of gray 0 is binarized to 0, as with 0
C15_Witness ==
    /\ pc = "pointed"
    /\ given = -10
    /\ img = [gray |-> 0, point |-> 0]

-----------------------------------------------------------------------------
(* The end of the run *)

(* C16: when the glob matches no file the run exits at once with an error  *)
(* message, no document opened and nothing written; otherwise every        *)
(* matched file is processed and the run ends with the summary of the      *)
(* input files processed and the output files produced.                    *)
C16_ExitOrSummary ==
    /\ filepaths = 0 =>
           /\ pc \in {"main", "exit"}
           /\ ifiles = 0 /\ ofiles = 0
           /\ input_pdf = NoReader /\ written = <<>>
    /\ pc = "exit" => filepaths = 0
    /\ pc = "done" => filepaths # 0 /\ ifiles = filepaths
    /\ (filepaths # 0 /\ ~ENABLED Next) => pc = "done"

-----------------------------------------------------------------------------
(* Several images on one page *)

\* the decoder results of image n of a page
ResultsOf(pg, n) == pg.Resources.XObject[n].results

\* the payloads of an image that carry "RPSEQ:", by position
Prefixed(results) ==
    {m \in 1..Len(results) :
        "parsed" \in DOMAIN results[m] /\ In(RPSEQ, results[m].parsed)}

\* the label an image yields: that of its last payload carrying "RPSEQ:"
LabelOfImage(results) ==
    IF Prefixed(results) = {} THEN <<>>
    ELSE BarcodeSep(results[Latest(Prefixed(results))].parsed)

\* the images of a page that yield a label
LabelledImages(pg) ==
    {n \in DecodedImages(pg) : LabelOfImage(ResultsOf(pg, n)) # <<>>}

(* C17: when images of a page yield labels, the page is a separator and    *)
(* the label pending after it is that of the last such image in the order  *)
(* the images are enumerated, which is the label of the last payload of    *)
(* that image that carries the separator prefix.                           *)
C17_LastLabelledImageWins ==
    (pc = "pages" /\ LabelledImages(page) # {}) =>
        /\ split
        /\ last_label =
               LabelOfImage(ResultsOf(page, Latest(LabelledImages(page))))

\* a page of two images: "B", then "A" and "EVENT1" in one image
C17_Witness ==
    /\ pc = "pages"
    /\ page = PageOf(<<ImageOf("/DCTDecode", <<Found(PayloadB)>>),
                       ImageOf("/DCTDecode",
                               <<Found(PayloadA), Found(PayloadEvent1)>>)>>)
    /\ last_label = Event1

-----------------------------------------------------------------------------
(* Page conservation *)

\* the page indices of the first i written files, one file after the other
RECURSIVE Concatenated(_)
Concatenated(i) ==
    IF i = 0 THEN <<>>
    ELSE Concatenated(i - 1) \o PageIndices(written[i].pages)

NotSeparatorAt(k) == ~SeparatorAt(k)

\* the page indices of the source read so far, in order
SourceIndices == [k \in 1..Len(doc) |-> k - 1]

Increasing(s) == \A a, b \in 1..Len(s) : a < b => s[a] < s[b]

\* the split_qr call is over: it has returned, or an exception has ended it
Over == pc \in {"returned", "error"}

(* C18: for every page sequence and flag setting, once split_qr is over    *)
(* each non-separator page is in exactly one written file, the document in *)
(* progress has been flushed if it held a page, the pages of each file are *)
(* in increasing source order, and the files in flush order, separator     *)
(* pages removed, give the non-separator pages of the input in order.      *)
C18_PagesConserved ==
    Over =>
        /\ \A k \in 0..(Len(doc) - 1) :
               NotSeparatorAt(k) => Cardinality(Holding(k)) = 1
        /\ HasPages(pdf_writer) =>
               /\ Len(written) > 0
               /\ written[Len(written)].pages = pdf_writer
        /\ \A i \in 1..Len(written) :
               Increasing(PageIndices(written[i].pages))
        /\ SelectSeq(Concatenated(Len(written)), NotSeparatorAt) =
               SelectSeq(SourceIndices, NotSeparatorAt)

-----------------------------------------------------------------------------
(* The secondary id goes with the label *)

\* the payloads of an image that carry "RC:", by position
WithId(results) ==
    {m \in 1..Len(results) :
        "parsed" \in DOMAIN results[m] /\ In(RC, results[m].parsed)}

\* the secondary id an image yields: that of its last payload carrying "RC:"
IdOfImage(results) ==
    IF WithId(results) = {} THEN <<>>
    ELSE BarcodeRace(results[Latest(WithId(results))].parsed)

\* the image of a separator page whose label wins
Winning == [pg \in SeparatorPages |-> Latest(LabelledImages(pg))]

\* the secondary id decoded from the image of the winning label
PairedIds == [pg \in SeparatorPages |-> IdOfImage(ResultsOf(pg, Winning[pg]))]

\* the name made of the winning label and the id of its image
PairedNames ==
    [pg \in SeparatorPages |->
        NameRule(LabelOfImage(ResultsOf(pg, Winning[pg])), PairedIds[pg])]

(* C19: after a separator page the pending secondary id is the one decoded *)
(* from the image of the winning label, empty if that image has none; the  *)
(* name of every file is made of the label and that id of the latest       *)
(* separator page before its flush, so that no id of an earlier separator  *)
(* page or of an image without label is in it.                             *)
C19_IdPairedWithLabel ==
    /\ (pc = "pages" /\ current_page > 0 /\ SeparatorAt(current_page - 1)) =>
           last_race = PairedIds[doc[current_page]]
    /\ \A i \in 1..Len(written) :
           written[i].name =
               IF SeparatorsBefore(written[i].at) = {} THEN SentinelPdf
               ELSE PairedNames[doc[Latest(SeparatorsBefore(written[i].at)) + 1]]

\* "A.pdf" written after an earlier separator page that bore the id "100"
C19_Witness ==
    \E i \in 1..Len(written) :
        /\ written[i].name = <<"A", ".", "p", "d", "f">>
        /\ \E k \in SeparatorsBefore(written[i].at) :
               /\ doc[k + 1] = PageEvent1Rc
               /\ k < Latest(SeparatorsBefore(written[i].at))

-----------------------------------------------------------------------------
(* Termination of split_qr *)

(* C20: split_qr reads the page indices 0 .. N-1 once each, in increasing  *)
(* order; N, taken when the file is opened, does not change when the       *)
(* reader is acquired again; and every call reaches the end of input,      *)
(* decides on the terminal flush and returns.                              *)
C20_SplitQrTerminates ==
    /\ [](pc \in {"pages", "returned"} =>
             /\ Len(doc) = current_page
             /\ current_page <= total_pages)
    /\ [](pc = "returned" => current_page = total_pages)
    /\ [][pc = "pages" => total_pages' = total_pages]_vars
    /\ (pc = "pages") ~> (pc = "returned")

====
